---- MODULE Spec2Model ----
(***************************************************************************)
(* Model of wasm/src/lib.rs: the exported operations main, greet and       *)
(* compute_hash of the Rust + WASM module, and the host that calls them.   *)
(*                                                                         *)
(* A text (&str / String) is a sequence of Unicode code points; its bytes  *)
(* are its UTF-8 encoding.  A u64 is a sequence of LimbCount limbs of      *)
(* LimbBase, least significant first, so that the 64-bit wraparound of the *)
(* source is computed exactly.                                             *)
(***************************************************************************)
EXTENDS Integers, Sequences, FiniteSets, TLC

\* ------------------------------------------------------------- bounds ----
\* Longest text, in characters, the host builds from Alphabet.
MaxChars == 2
\* Number of calls that may be in progress at once under SpecConc.
NumCalls == 2

\* ------------------------------------------------------------ u64 -------
LimbBase == 65536
LimbCount == 4

Calls == 1..NumCalls

Zero == [i \in 1..LimbCount |-> 0]

IsU64(x) ==
    /\ Len(x) = LimbCount
    /\ \A i \in 1..LimbCount : x[i] \in 0..(LimbBase - 1)

\* `byte as u64`: zero extension of a byte to 64 bits.
as_u64(b) == [i \in 1..LimbCount |-> IF i = 1 THEN b ELSE 0]

\* The limbs of x * m + carry, the carry out of the top limb dropped.
RECURSIVE MulLimbs(_, _, _)
MulLimbs(x, m, carry) ==
    IF x = <<>> THEN <<>>
    ELSE LET p == Head(x) * m + carry
         IN  <<p % LimbBase>> \o MulLimbs(Tail(x), m, p \div LimbBase)

\* The carry out of the top limb of x * m + carry (what wrapping_mul drops;
\* used by the faulty variants below).
RECURSIVE MulCarryOut(_, _, _)
MulCarryOut(x, m, carry) ==
    IF x = <<>> THEN carry
    ELSE MulCarryOut(Tail(x), m, (Head(x) * m + carry) \div LimbBase)

\* Faulty variant: u64::saturating_mul, which clamps at u64::MAX instead of wrapping.
saturating_mul(x, m) ==
    IF MulCarryOut(x, m, 0) = 0 THEN MulLimbs(x, m, 0)
    ELSE [i \in 1..LimbCount |-> LimbBase - 1]

\* Faulty variant: the product promoted to a wider type, its high part kept.
widening_mul(x, m) ==
    LET c == MulCarryOut(x, m, 0)
    IN  IF c = 0 THEN MulLimbs(x, m, 0) ELSE MulLimbs(x, m, 0) \o <<c>>

\* u64::wrapping_mul by a small multiplier.
wrapping_mul(x, m) == MulLimbs(x, m, 0)

Limb(x, i) == IF i <= Len(x) THEN x[i] ELSE 0

\* The limbs i.. of x + y + carry, over the width of the wider operand.
RECURSIVE AddLimbs(_, _, _, _)
AddLimbs(x, y, i, carry) ==
    IF i > Len(x) /\ i > Len(y) THEN <<>>
    ELSE LET s == Limb(x, i) + Limb(y, i) + carry
         IN  <<s % LimbBase>> \o AddLimbs(x, y, i + 1, s \div LimbBase)

\* u64::wrapping_add.
wrapping_add(x, y) == AddLimbs(x, y, 1, 0)

\* The multiplier of the rolling hash.
Multiplier == 31

\* Faulty variant: the byte added to the multiplier instead of to the product.
fold_step_misparenthesised(hash, byte) == wrapping_mul(hash, Multiplier + byte)

\* The loop body: hash.wrapping_mul(31).wrapping_add(byte as u64).
fold_step(hash, byte) == wrapping_add(wrapping_mul(hash, Multiplier), as_u64(byte))

\* Faulty variant: an accumulator seeded with 1.
SeededAccumulator == as_u64(1)

\* `let mut hash: u64 = 0`.
NewAccumulator == Zero

\* ------------------------------------------------------------ text ------
\* The UTF-8 encoding of one code point.
utf8(cp) ==
    IF cp < 128 THEN <<cp>>
    ELSE IF cp < 2048 THEN <<192 + (cp \div 64), 128 + (cp % 64)>>
    ELSE IF cp < 65536 THEN
        <<224 + (cp \div 4096), 128 + ((cp \div 64) % 64), 128 + (cp % 64)>>
    ELSE <<240 + (cp \div 262144), 128 + ((cp \div 4096) % 64),
           128 + ((cp \div 64) % 64), 128 + (cp % 64)>>

RECURSIVE encode(_)
encode(text) == IF text = <<>> THEN <<>> ELSE utf8(Head(text)) \o encode(Tail(text))

\* Faulty variant: the iteration stops one byte short of the end.
bytes_but_last(text) ==
    LET b == encode(text) IN IF b = <<>> THEN b ELSE SubSeq(b, 1, Len(b) - 1)

\* input.bytes(): the bytes the loop iterates over.
bytes(text) == encode(text)

\* Faulty variant: `{:?}`, the Debug form of a string, which quotes it.
debug(s) == <<34>> \o s \o <<34>>

\* `{}` on a &str: the Display form, the string itself.
display(s) == s

\* "Hello, {} from Rust + WASM! (Auto-rebuilt!)"
GreetTemplate ==
    <<72, 101, 108, 108, 111, 44, 32, 123, 125, 32, 102, 114, 111, 109, 32,
      82, 117, 115, 116, 32, 43, 32, 87, 65, 83, 77, 33, 32, 40, 65, 117,
      116, 111, 45, 114, 101, 98, 117, 105, 108, 116, 33, 41>>

\* format!: the template copied, each {} replaced by the argument's Display
\* form; the argument's own text is not scanned again.
RECURSIVE format(_, _)
format(fmt, arg) ==
    IF fmt = <<>> THEN <<>>
    ELSE IF Len(fmt) >= 2 /\ fmt[1] = 123 /\ fmt[2] = 125
         THEN display(arg) \o format(SubSeq(fmt, 3, Len(fmt)), arg)
         ELSE <<Head(fmt)>> \o format(Tail(fmt), arg)

greet(name) == format(GreetTemplate, name)

\* ------------------------------------------------------------ inputs ----
\* NUL, 'a', e-acute and e-circumflex (two bytes each in UTF-8).
Alphabet == {0, 97, 233, 234}

RECURSIVE TextsOfLen(_)
TextsOfLen(n) ==
    IF n = 0 THEN {<<>>}
    ELSE {Append(t, c) : t \in TextsOfLen(n - 1), c \in Alphabet}

Texts == UNION {TextsOfLen(n) : n \in 0..MaxChars}

TextAb == <<97, 98>>
TextTest == <<116, 101, 115, 116>>
TextDifferent == <<100, 105, 102, 102, 101, 114, 101, 110, 116>>
TextWorld == <<87, 111, 114, 108, 100>>
TextBraces == <<123, 125>>
\* "Hello, World from Rust + WASM! (Auto-rebuilt!)"
TextGreeting ==
    <<72, 101, 108, 108, 111, 44, 32, 87, 111, 114, 108, 100, 32, 102, 114,
      111, 109, 32, 82, 117, 115, 116, 32, 43, 32, 87, 65, 83, 77, 33, 32,
      40, 65, 117, 116, 111, 45, 114, 101, 98, 117, 105, 108, 116, 33, 41>>

\* The literals of the tests and of the specification's test vectors.
Literals == {TextAb, TextTest, TextDifferent, TextWorld, TextBraces, TextGreeting}

\* What a sequential host passes.
Pool == Texts \cup Literals

\* What concurrent callers pass.
ConcPool == {<<>>, TextAb, TextTest, TextDifferent}

\* ------------------------------------------------------------ state -----
VARIABLES
    build,      \* "test" | "plain" | "panic_hook": cfg(test) and the feature
    started,    \* the start function has run
    hook,       \* console_error_panic_hook is installed
    call,       \* per call slot: pc, op, input, idx, result
    hash,       \* per call slot: the accumulator of compute_hash
    held        \* the last compute_hash result the host kept, or NoResult

vars == <<build, started, hook, call, hash, held>>

Builds == {"test", "plain", "panic_hook"}

Idle == [pc |-> "idle", op |-> "none", input |-> <<>>, idx |-> 0, result |-> <<>>]

NoResult == [input |-> <<>>, result |-> <<>>]

\* Faulty variant: one static accumulator shared by every call.
shared_slot(c) == 1

\* The accumulator is a local of the call.
slot_of(c) == c

Init ==
    /\ build \in Builds
    /\ started = FALSE
    /\ hook = FALSE
    /\ call = [c \in Calls |-> Idle]
    /\ hash = [c \in Calls |-> Zero]
    /\ held = NoResult

\* The exports are callable once the module is instantiated; the test build
\* has no start function.
Callable == build = "test" \/ started

\* main: set_once installs the panic hook when the feature is compiled in.
Main ==
    /\ build # "test"
    /\ started' = TRUE
    /\ hook' = (hook \/ build = "panic_hook")
    /\ UNCHANGED <<build, call, hash, held>>

CallGreet(c, name) ==
    /\ Callable
    /\ call[c].pc = "idle"
    /\ call' = [call EXCEPT ![c] =
                   [pc |-> "done", op |-> "greet", input |-> name, idx |-> 0,
                    result |-> greet(name)]]
    /\ UNCHANGED <<build, started, hook, hash, held>>

CallHash(c, input) ==
    /\ Callable
    /\ call[c].pc = "idle"
    /\ call' = [call EXCEPT ![c] =
                   [pc |-> "loop", op |-> "compute_hash", input |-> input,
                    idx |-> 0, result |-> <<>>]]
    /\ hash' = [hash EXCEPT ![slot_of(c)] = NewAccumulator]
    /\ UNCHANGED <<build, started, hook, held>>

\* One iteration of the for loop.
Step(c) ==
    /\ call[c].pc = "loop"
    /\ call[c].idx < Len(bytes(call[c].input))
    /\ \E byte \in {bytes(call[c].input)[call[c].idx + 1]} :
          hash' = [hash EXCEPT ![slot_of(c)] = fold_step(hash[slot_of(c)], byte)]
    /\ call' = [call EXCEPT ![c].idx = @ + 1]
    /\ UNCHANGED <<build, started, hook, held>>

\* The iterator is exhausted: the function returns hash.
Finish(c) ==
    /\ call[c].pc = "loop"
    /\ call[c].idx = Len(bytes(call[c].input))
    /\ call' = [call EXCEPT ![c].pc = "done", ![c].result = hash[slot_of(c)]]
    /\ UNCHANGED <<build, started, hook, hash, held>>

\* The host keeps the returned hash (let hash1 = compute_hash(..)).
Take(c) ==
    /\ call[c].pc = "done"
    /\ call[c].op = "compute_hash"
    /\ held' = [input |-> call[c].input, result |-> call[c].result]
    /\ call' = [call EXCEPT ![c] = Idle]
    /\ hash' = [hash EXCEPT ![c] = Zero]
    /\ UNCHANGED <<build, started, hook>>

\* The host consumes the returned value without keeping it.
Drop(c) ==
    /\ call[c].pc = "done"
    /\ call' = [call EXCEPT ![c] = Idle]
    /\ hash' = [hash EXCEPT ![c] = Zero]
    /\ UNCHANGED <<build, started, hook, held>>

\* ------------------------------------------------- sequential host ------
SeqGreet == \E name \in Pool : CallGreet(1, name)
SeqHash == \E input \in Pool : CallHash(1, input)
SeqStep == Step(1)
SeqFinish == Finish(1)
SeqTake == Take(1)
SeqDrop == Drop(1)

Next ==
    \/ Main
    \/ SeqGreet
    \/ SeqHash
    \/ SeqStep
    \/ SeqFinish
    \/ SeqTake
    \/ SeqDrop

Spec == Init /\ [][Next]_vars

\* ------------------------------------------------- concurrent callers ---
ConcGreet == \E c \in Calls : \E name \in ConcPool : CallGreet(c, name)
ConcHash == \E c \in Calls : \E input \in ConcPool : CallHash(c, input)
ConcStep == \E c \in Calls : Step(c)
ConcFinish == \E c \in Calls : Finish(c)
ConcDrop == \E c \in Calls : Drop(c)

NextConc ==
    \/ Main
    \/ ConcGreet
    \/ ConcHash
    \/ ConcStep
    \/ ConcFinish
    \/ ConcDrop

SpecConc == Init /\ [][NextConc]_vars

\* ================================================================ claims
\* Exact natural numbers (no width): limbs of 65536, least significant first,
\* as long as the number needs.  NatMulAdd(n, m, a) is n * m + a.
RECURSIVE NatMulAdd(_, _, _)
NatMulAdd(n, m, a) ==
    IF n = <<>>
    THEN IF a = 0 THEN <<>> ELSE <<a % 65536>> \o NatMulAdd(<<>>, m, a \div 65536)
    ELSE LET p == Head(n) * m + a
         IN  <<p % 65536>> \o NatMulAdd(Tail(n), m, p \div 65536)

\* ((...((acc*31 + b0)*31 + b1)...)*31 + bn), exactly.
RECURSIVE NatFold(_, _)
NatFold(acc, bs) ==
    IF bs = <<>> THEN acc ELSE NatFold(NatMulAdd(acc, 31, Head(bs)), Tail(bs))

\* n mod 2^64, as four limbs.
Mod2e64(n) == [i \in 1..4 |-> IF i <= Len(n) THEN n[i] ELSE 0]

\* The value the contract gives for a byte sequence.
Horner(bs) == Mod2e64(NatFold(<<>>, bs))

\* The exact fold needs more than 64 bits.
Wraps(bs) == Len(NatFold(<<>>, bs)) > 4

Hashing(c) == call[c].op = "compute_hash" /\ call[c].pc = "loop"
Hashed(c) == call[c].op = "compute_hash" /\ call[c].pc = "done"
Greeted(c) == call[c].op = "greet" /\ call[c].pc = "done"
Kept == held.result # <<>>

\* C1: compute_hash returns the Horner fold of the input's UTF-8 bytes with
\* multiplier 31, reduced mod 2^64 (the accumulator equals the fold of the
\* bytes consumed so far at every iteration), and compute_hash("ab") = 3105.
C1_HashIsHornerMod2e64 ==
    /\ Hashing(1) =>
          hash[1] = Horner(SubSeq(encode(call[1].input), 1, call[1].idx))
    /\ Hashed(1) =>
          /\ call[1].result = Horner(encode(call[1].input))
          /\ call[1].input = <<97, 98>> => call[1].result = <<3105, 0, 0, 0>>

\* A call on a 46-byte input whose exact fold exceeds 2^64 has returned.
C1_Witness ==
    /\ Hashed(1)
    /\ call[1].input = TextGreeting
    /\ Wraps(encode(call[1].input))
    /\ call[1].result = <<57835, 38355, 30243, 54677>>

\* C2: compute_hash is total: a call is only ever idle, in its loop or done;
\* the accumulator and the result are always in 0..2^64-1; a call in its loop
\* can always take its next step; and it returns after exactly one iteration
\* per input byte.
C2_TotalNeverFails ==
    /\ call[1].pc \in {"idle", "loop", "done"}
    /\ IsU64(hash[1])
    /\ Hashing(1) =>
          /\ call[1].idx <= Len(encode(call[1].input))
          /\ ENABLED (Step(1) \/ Finish(1))
    /\ Hashed(1) =>
          /\ call[1].idx = Len(encode(call[1].input))
          /\ IsU64(call[1].result)

\* A call is about to multiply an accumulator whose product with 31 exceeds
\* 2^64 - 1.
C2_Witness ==
    /\ Hashing(1)
    /\ call[1].idx < Len(encode(call[1].input))
    /\ Len(NatMulAdd(hash[1], 31, 0)) > 4

\* C3: compute_hash is deterministic: two calls on the same input return the
\* same value, whatever other calls ran in between and whatever the build
\* and the hook state.
C3_Deterministic ==
    \A c \in Calls : \A d \in Calls :
        (Hashed(c) /\ Hashed(d) /\ call[c].input = call[d].input)
            => call[c].result = call[d].result

\* Two calls on the same non-empty input have both returned.
C3_Witness ==
    \E c \in Calls : \E d \in Calls :
        /\ c # d
        /\ Hashed(c) /\ Hashed(d)
        /\ call[c].input = call[d].input
        /\ call[c].input = TextDifferent

\* C4: on the empty input the accumulator is never updated and the result
\* is 0.
C4_EmptyInputIsZero ==
    (call[1].op = "compute_hash" /\ call[1].input = <<>>) =>
        /\ call[1].idx = 0
        /\ hash[1] = <<0, 0, 0, 0>>
        /\ ~ ENABLED Step(1)
        /\ call[1].pc = "done" => call[1].result = <<0, 0, 0, 0>>

C4_Witness == Hashed(1) /\ call[1].input = <<>>

\* The host keeps the hash of s and a call on s followed by one more byte
\* has returned.
Appended ==
    /\ Kept
    /\ Hashed(1)
    /\ LET s == encode(held.input)
           t == encode(call[1].input)
       IN  Len(t) = Len(s) + 1 /\ SubSeq(t, 1, Len(s)) = s

\* The byte that was appended.
AppendedByte == LET t == encode(call[1].input) IN t[Len(t)]

\* C5 as claimed: appending any byte to any input changes the result.
C5_AppendAlwaysChanges == Appended => call[1].result # held.result

\* C5 as amended: appending byte b to s leaves the result unchanged exactly
\* when (30 * compute_hash(s) + b) mod 2^64 = 0, and changes it otherwise.
C5_AppendChangesUnlessCongruent ==
    Appended =>
        ((call[1].result = held.result)
            <=> (Mod2e64(NatMulAdd(held.result, 30, AppendedByte)) = <<0, 0, 0, 0>>))

\* A byte was appended to a non-empty input and the result changed.
C5_Witness ==
    /\ Appended
    /\ held.input = <<97>>
    /\ AppendedByte = 98
    /\ call[1].result # held.result

\* C6: compute_hash("test") # compute_hash("different").
C6_TestDiffersFromDifferent ==
    (Kept /\ Hashed(1) /\ held.input = TextTest /\ call[1].input = TextDifferent)
        => call[1].result # held.result

C6_Witness ==
    /\ Kept /\ Hashed(1)
    /\ held.input = TextTest
    /\ call[1].input = TextDifferent

\* A step of call c: its record changes.
Acts(c) == call'[c] # call[c]

\* C7: no shared state: under every interleaving of greet, compute_hash and
\* main, greet returns what it returns alone, and a step of a compute_hash
\* call changes nothing but that call's own record and accumulator (not the
\* build, the started flag, the panic hook, or any other call).
C7_NoSharedState ==
    /\ [](/\ \A c \in Calls :
                Greeted(c) =>
                    call[c].result =
                        <<72, 101, 108, 108, 111, 44, 32>> \o call[c].input
                        \o <<32, 102, 114, 111, 109, 32, 82, 117, 115, 116, 32,
                             43, 32, 87, 65, 83, 77, 33, 32, 40, 65, 117, 116,
                             111, 45, 114, 101, 98, 117, 105, 108, 116, 33, 41>>
          /\ hook => build = "panic_hook" /\ started)
    /\ [][\A c \in Calls :
            (Acts(c) /\ (call[c].op = "compute_hash" \/ call'[c].op = "compute_hash"))
                => /\ UNCHANGED <<build, started, hook, held>>
                   /\ \A d \in Calls \ {c} :
                        call'[d] = call[d] /\ hash'[d] = hash[d]]_vars

\* A greet result and a compute_hash call in mid-loop coexist, the hook set.
C7_Witness ==
    \E c \in Calls : \E d \in Calls :
        /\ hook
        /\ Greeted(c) /\ call[c].input = TextTest
        /\ Hashing(d) /\ call[d].idx = 2

\* C8: under every interleaving of the per-byte steps of concurrent calls,
\* each call's accumulator is the fold of the bytes it has consumed and each
\* call returns the value of the fold of its own input, as when run alone.
C8_ConcurrentCallsIndependent ==
    \A c \in Calls :
        /\ Hashing(c) =>
              hash[c] = Horner(SubSeq(encode(call[c].input), 1, call[c].idx))
        /\ Hashed(c) => call[c].result = Horner(encode(call[c].input))

\* Two calls on different inputs are both part-way through their loops.
C8_Witness ==
    \E c \in Calls : \E d \in Calls :
        /\ Hashing(c) /\ Hashing(d)
        /\ call[c].input = TextTest /\ call[c].idx = 3
        /\ call[d].input = TextDifferent /\ call[d].idx = 5

\* C9: greet(name) is "Hello, ", then name unchanged, then
\* " from Rust + WASM! (Auto-rebuilt!)"; greet("World") is the test's literal.
C9_GreetFormat ==
    Greeted(1) =>
        /\ Len(call[1].result) = 7 + Len(call[1].input) + 34
        /\ SubSeq(call[1].result, 1, 7) = <<72, 101, 108, 108, 111, 44, 32>>
        /\ SubSeq(call[1].result, 8, 7 + Len(call[1].input)) = call[1].input
        /\ SubSeq(call[1].result, 8 + Len(call[1].input), Len(call[1].result)) =
              <<32, 102, 114, 111, 109, 32, 82, 117, 115, 116, 32, 43, 32, 87,
                65, 83, 77, 33, 32, 40, 65, 117, 116, 111, 45, 114, 101, 98,
                117, 105, 108, 116, 33, 41>>
        /\ call[1].input = <<87, 111, 114, 108, 100>> =>
              call[1].result = TextGreeting

\* greet has returned for a name that itself contains "{}".
C9_Witness == Greeted(1) /\ call[1].input = <<123, 125>>

\* The byte sequences x and y have the same length and differ at exactly
\* one index.
OneByteApart(x, y) ==
    /\ Len(x) = Len(y)
    /\ Cardinality({i \in 1..Len(x) : x[i] # y[i]}) = 1

\* C10: two inputs of the same byte length that differ in exactly one byte
\* never have the same hash.
C10_SingleByteSubstitution ==
    (Kept /\ Hashed(1) /\ OneByteApart(encode(held.input), encode(call[1].input)))
        => call[1].result # held.result

\* Two two-byte characters that differ in their second byte were hashed.
C10_Witness ==
    /\ Kept /\ Hashed(1)
    /\ held.input = <<233>>
    /\ call[1].input = <<234>>
    /\ OneByteApart(encode(held.input), encode(call[1].input))

====
